---- MODULE Spec2Model ----
(***************************************************************************)
(* A model of download.py: the retrying ffmpeg invoker (ffmpeg), the       *)
(* three-step segment acquisition (download_yt_video), the per-job worker  *)
(* (segment_mp_worker) and the scheduler (download_subset_videos).         *)
(*                                                                         *)
(* Durations are fixed-point numbers in tenths of a second: the token      *)
(* '10' after '-t' is Num(100), and str(float(v) + diff) is Num(v + diff). *)
(***************************************************************************)
EXTENDS Integers, Sequences, FiniteSets, TLC

VARIABLES
    hasIterable,          \* the interpreter still has collections.Iterable (Python < 3.10)
    fs,                   \* the filesystem: the state of each output path
    fpc,                  \* ffmpeg(): "idle", "call", "loop", "returned", "raised"
    input_path,           \* ffmpeg(): kind of the input_path argument
    output_path,          \* ffmpeg(): the output path
    input_args,           \* ffmpeg(): the input_args list (mutated in place)
    output_args,          \* ffmpeg(): the output_args list (mutated in place)
    num_retries,          \* ffmpeg(): num_retries
    validation_callback,  \* ffmpeg(): TRUE iff a validation callback was passed
    attempt,              \* ffmpeg(): the loop variable of `for attempt in range(num_retries)`
    last_err,             \* ffmpeg(): last_err, by exception class
    runs,                 \* history: one record per execution of run_command in this call
    outcome,              \* how the ffmpeg() call ended
    orig_args,            \* history: <<input_args, output_args>> as passed by the caller
    wpc,                  \* segment_mp_worker / download_yt_video: position
    ytid_len,             \* len(ytid)
    video_codec,          \* the configured video codec
    fs0,                  \* history: the filesystem when the worker was called
    n_resolve,            \* history: number of Video.getFormats calls of this job
    n_exec,               \* history: number of run_command executions of this job
    wlog,                 \* what segment_mp_worker logged: "none" or the exception it caught
    wret,                 \* what download_yt_video returned: "none", "noop", "paths"
    ts_start,             \* the start offset of the request, in tenths of a second
    calls,                \* history: how each ffmpeg() call of this job ended
    spc,                  \* download_subset_videos: position
    rows,                 \* the rows of the metadata file, header first
    disk,                 \* the output files of every segment the file can name
    num_workers,          \* num_workers
    pool,                 \* the multiprocessing pool: its state and its size
    submitted,            \* the rows handed to pool.apply_async
    skipped,              \* the rows logged as "Already downloaded ... Skipping."
    sexc,                 \* the exception download_subset_videos is unwinding with
    interrupted           \* a SIGINT is pending delivery to the scheduler

envVars == <<hasIterable, fs>>
ffVars == <<fpc, input_path, output_path, input_args, output_args, num_retries,
            validation_callback, attempt, last_err, runs, outcome, orig_args>>
wVars == <<wpc, ytid_len, video_codec, ts_start, fs0, n_resolve, n_exec, wlog, wret, calls>>
sVars == <<spc, rows, disk, num_workers, pool, submitted, skipped, sexc, interrupted>>
vars == <<envVars, ffVars, wVars, sVars>>

-----------------------------------------------------------------------------
(* Bounds *)

MaxRetries == 3

\* target_duration - actual_duration of a duration mismatch, in tenths of a second
Diffs == {5, 2, -3}

-----------------------------------------------------------------------------
(* Tokens, argument lists and files *)

Tok(s) == [f |-> s, n |-> 0]
Num(x) == [f |-> "#", n |-> x]
IsNum(t) == t.f = "#"

\* duration = 10 (seconds), in tenths
duration == 100

Paths == {"audio", "video", "video_audio"}

\* "stale": left by an earlier run; "partial": left by a failed execution;
\* "invalid": written by an execution whose output did not validate;
\* "good": written by an execution that succeeded.
FileStates == {"absent", "stale", "partial", "invalid", "good"}

Exists(f, p) == f[p] # "absent"

\* if os.path.exists(p): os.remove(p)
RemoveIfExists(f, p) == [f EXCEPT ![p] = "absent"]

\* list.index(tok): the first position of tok, 0 when it raises ValueError
IndexOf(args, s) ==
    IF \E i \in 1..Len(args) : args[i] = Tok(s)
    THEN CHOOSE i \in 1..Len(args) :
             /\ args[i] = Tok(s)
             /\ \A j \in 1..(i - 1) : args[j] # Tok(s)
    ELSE 0

Contains(args, s) == IndexOf(args, s) > 0

-----------------------------------------------------------------------------
(* The external tool and the collaborators of utils.py and errors.py *)

\* HTTP_ERR_PATTERN.match(stderr) and stderr.endswith('already exists. Exiting.')
\* are two independent facts about the captured standard error.
Stderrs == [ends_exists : BOOLEAN, matches_http : BOOLEAN]

\* run_command(args): what one execution of the tool can do.  It succeeds and
\* writes the output, or it fails, having written part of the output or
\* nothing.  With '-n' it never touches an output file that is already there,
\* and only when the file is there can its stderr end with the
\* 'already exists. Exiting.' marker; it may fail earlier, on its input.
ToolOutcomes(exists, no_overwrite) ==
    {o \in [ok : {FALSE}, stderr : Stderrs, wrote : BOOLEAN] :
        /\ o.stderr.ends_exists => (exists /\ ~o.wrote)
        /\ o.wrote => ~(exists /\ no_overwrite)}
    \cup
    (IF exists /\ no_overwrite
     THEN {}
     ELSE {[ok |-> TRUE, stderr |-> [ends_exists |-> FALSE, matches_http |-> FALSE],
            wrote |-> TRUE]})

\* The file an execution leaves at the output path.
Written(f, p, o) ==
    IF ~o.wrote THEN f
    ELSE [f EXCEPT ![p] = IF o.ok THEN "good" ELSE "partial"]

-----------------------------------------------------------------------------
(* ffmpeg() *)

\* A faulty variant: the loop gives up one attempt early.
RangeDoneOffByOne(a, n) == a >= n - 1

\* `for attempt in range(num_retries)` has no further value to take
RangeDone(a, n) == a >= n

\* A faulty variant: the HTTP pattern is tried before the marker.
ClassifyHttpFirst(e) ==
    IF e.matches_http THEN "http"
    ELSE IF e.ends_exists THEN "exists"
    ELSE "other"

\* The if / elif of the SubprocessError handler.
Classify(e) ==
    IF e.ends_exists THEN "exists"
    ELSE IF e.matches_http THEN "http"
    ELSE "other"

\* A faulty variant: the rewrite starts again from the value the caller passed.
RewriteDurationFromOriginal(args, d) ==
    LET i == IndexOf(args, "-t") + 1
        o == IF args = input_args THEN orig_args[1] ELSE orig_args[2]
    IN  [args EXCEPT ![i] = Num(o[i].n + d)]

\* args[idx] = str(float(args[idx]) + duration_diff), idx = args.index('-t') + 1
RewriteDuration(args, d) ==
    LET i == IndexOf(args, "-t") + 1
    IN  [args EXCEPT ![i] = Num(args[i].n + d)]

\* float(args[args.index('-t') + 1]) raises neither ValueError nor IndexError
DurationReadable(args) ==
    /\ Contains(args, "-t")
    /\ IndexOf(args, "-t") + 1 <= Len(args)
    /\ IsNum(args[IndexOf(args, "-t") + 1])

\* A faulty variant: a rewrite that finds no '-t' is passed over in silence.
DurationRewriteIgnored(ia, oa) == "None"

\* The try / except ValueError around the rewrite: which exception, if any,
\* leaves the FfmpegIncorrectDurationError handler.
DurationRewriteRaises(ia, oa) ==
    IF DurationReadable(ia) THEN "None"
    ELSE IF Contains(ia, "-t") /\ IndexOf(ia, "-t") + 1 > Len(ia) THEN "IndexError"
    ELSE IF DurationReadable(oa) THEN "None"
    ELSE IF Contains(oa, "-t") /\ IndexOf(oa, "-t") + 1 > Len(oa) THEN "IndexError"
    ELSE "ValueError"

\* A faulty variant: the output is removed after the last attempt as well.
AnyAttempt(a, n) == TRUE

\* attempt < num_retries - 1, the first conjunct of the tests of lines 236 and 255
NotLastAttempt(a, n) == a < n - 1

\* A faulty variant: a failed attempt does not use up a value of the range.
NextAttemptStuck(a) == a

\* The next value `for attempt in range(num_retries)` gives the loop variable.
NextAttempt(a) == a + 1

ffFrame == <<input_path, output_path, num_retries, validation_callback, orig_args>>

\* Bookkeeping of one execution of run_command.
Executed(o, kind, d) ==
    /\ runs' = Append(runs, [ia |-> input_args, oa |-> output_args, ok |-> o.ok,
                             stderr |-> o.stderr, kind |-> kind, diff |-> d,
                             pre |-> fs[output_path]])
    /\ n_exec' = n_exec + 1
    /\ UNCHANGED <<hasIterable, ffFrame, sVars,
                   wpc, ytid_len, video_codec, ts_start, fs0, n_resolve, wlog, wret, calls>>

NoOverwrite == Contains(input_args, "-n") \/ Contains(output_args, "-n")

Attempting == fpc = "loop" /\ ~RangeDone(attempt, num_retries)

\* Lines 191-207: build the '-i' list, default the argument lists.
FfmpegEnter ==
    /\ fpc = "call"
    /\ attempt' = 0
    /\ last_err' = "None"
    /\ IF input_path = "str"
       THEN fpc' = "loop" /\ outcome' = "none"
       ELSE IF ~hasIterable
       THEN fpc' = "raised" /\ outcome' = "AttributeError"
       ELSE IF input_path = "list"
       THEN fpc' = "loop" /\ outcome' = "none"
       ELSE fpc' = "raised" /\ outcome' = "ValueError"
    /\ UNCHANGED <<envVars, ffFrame, input_args, output_args, runs, wVars, sVars>>

\* Lines 209-218: the tool exits 0 and the callback, if any, accepts: break.
FfmpegSuccess ==
    /\ Attempting
    /\ \E o \in ToolOutcomes(Exists(fs, output_path), NoOverwrite) :
          /\ o.ok
          /\ fs' = Written(fs, output_path, o)
          /\ Executed(o, "success", 0)
    /\ fpc' = "returned"
    /\ outcome' = "success"
    /\ UNCHANGED <<input_args, output_args, attempt, last_err>>

\* Lines 219-225: SubprocessError whose stderr ends with the marker: break.
FfmpegAlreadyExists ==
    /\ Attempting
    /\ \E o \in ToolOutcomes(Exists(fs, output_path), NoOverwrite) :
          /\ ~o.ok
          /\ Classify(o.stderr) = "exists"
          /\ fs' = Written(fs, output_path, o)
          /\ Executed(o, "exists", 0)
    /\ last_err' = "SubprocessError"
    /\ fpc' = "returned"
    /\ outcome' = "exists"
    /\ UNCHANGED <<input_args, output_args, attempt>>

\* Lines 219-228: SubprocessError matching HTTP_ERR_PATTERN: continue.
FfmpegHttpError ==
    /\ Attempting
    /\ \E o \in ToolOutcomes(Exists(fs, output_path), NoOverwrite) :
          /\ ~o.ok
          /\ Classify(o.stderr) = "http"
          /\ fs' = Written(fs, output_path, o)
          /\ Executed(o, "http", 0)
    /\ last_err' = "SubprocessError"
    /\ attempt' = NextAttempt(attempt)
    /\ UNCHANGED <<input_args, output_args, fpc, outcome>>

\* Lines 219-232: any other SubprocessError: log, remove the output, go on.
FfmpegOtherError ==
    /\ Attempting
    /\ \E o \in ToolOutcomes(Exists(fs, output_path), NoOverwrite) :
          /\ ~o.ok
          /\ Classify(o.stderr) = "other"
          /\ fs' = RemoveIfExists(Written(fs, output_path, o), output_path)
          /\ Executed(o, "other", 0)
    /\ last_err' = "SubprocessError"
    /\ attempt' = NextAttempt(attempt)
    /\ UNCHANGED <<input_args, output_args, fpc, outcome>>

\* Lines 234-251: the callback raises FfmpegIncorrectDurationError.
FfmpegIncorrectDuration ==
    /\ Attempting
    /\ validation_callback
    /\ \E o \in ToolOutcomes(Exists(fs, output_path), NoOverwrite), d \in Diffs :
          /\ o.ok
          /\ LET written == [fs EXCEPT ![output_path] = "invalid"]
             IN  fs' = IF NotLastAttempt(attempt, num_retries)
                       THEN RemoveIfExists(written, output_path)
                       ELSE written
          /\ IF DurationRewriteRaises(input_args, output_args) # "None"
             THEN /\ fpc' = "raised"
                  /\ outcome' = DurationRewriteRaises(input_args, output_args)
                  /\ UNCHANGED <<input_args, output_args, attempt>>
             ELSE /\ IF DurationReadable(input_args)
                     THEN /\ input_args' = RewriteDuration(input_args, d)
                          /\ UNCHANGED output_args
                     ELSE IF DurationReadable(output_args)
                     THEN /\ output_args' = RewriteDuration(output_args, d)
                          /\ UNCHANGED input_args
                     ELSE UNCHANGED <<input_args, output_args>>
                  /\ attempt' = NextAttempt(attempt)
                  /\ UNCHANGED <<fpc, outcome>>
          /\ Executed(o, "duration", d)
    /\ last_err' = "FfmpegIncorrectDurationError"

\* Lines 253-260: the callback raises FfmpegValidationError.
FfmpegValidationFailed ==
    /\ Attempting
    /\ validation_callback
    /\ \E o \in ToolOutcomes(Exists(fs, output_path), NoOverwrite) :
          /\ o.ok
          /\ LET written == [fs EXCEPT ![output_path] = "invalid"]
             IN  fs' = IF NotLastAttempt(attempt, num_retries)
                       THEN RemoveIfExists(written, output_path)
                       ELSE written
          /\ Executed(o, "validation", 0)
    /\ last_err' = "FfmpegValidationError"
    /\ attempt' = NextAttempt(attempt)
    /\ UNCHANGED <<input_args, output_args, fpc, outcome>>

\* Lines 261-263: the loop ran out without break: log the error, return.
FfmpegExhausted ==
    /\ fpc = "loop"
    /\ RangeDone(attempt, num_retries)
    /\ fpc' = "returned"
    /\ outcome' = "exhausted"
    /\ UNCHANGED <<envVars, ffFrame, input_args, output_args, attempt, last_err,
                   runs, wVars, sVars>>

FfmpegStep ==
    \/ FfmpegEnter
    \/ FfmpegSuccess
    \/ FfmpegAlreadyExists
    \/ FfmpegHttpError
    \/ FfmpegOtherError
    \/ FfmpegIncorrectDuration
    \/ FfmpegValidationFailed
    \/ FfmpegExhausted

-----------------------------------------------------------------------------
(* One call of ffmpeg() by an arbitrary caller *)

InArgChoices ==
    { <<>>,
      <<Tok("-n")>>,
      <<Tok("-n"), Tok("-ss"), Num(300)>>,
      <<Tok("-n"), Tok("-ss"), Num(300), Tok("-t"), Num(duration)>> }

OutArgChoices ==
    { <<>>,
      <<Tok("-f"), Tok("mp4")>>,
      <<Tok("-t"), Num(duration), Tok("-f"), Tok("mp4")>> }

WorkerIdle ==
    /\ wpc = "idle"
    /\ ytid_len = 11
    /\ video_codec = "h264"
    /\ fs0 = fs
    /\ n_resolve = 0
    /\ n_exec = 0
    /\ wlog = "none"
    /\ wret = "none"
    /\ ts_start = 0
    /\ calls = <<>>

SchedulerIdle ==
    /\ spc = "idle"
    /\ rows = <<>>
    /\ disk = [k \in {1, 2} |-> [p \in Paths |-> "absent"]]
    /\ num_workers = 1
    /\ pool = [state |-> "none", size |-> 0]
    /\ submitted = {}
    /\ skipped = {}
    /\ sexc = "None"
    /\ interrupted = FALSE

InitFfmpeg ==
    /\ hasIterable \in BOOLEAN
    /\ output_path = "audio"
    /\ fs \in {f \in [Paths -> {"absent", "stale"}] :
                  \A p \in Paths \ {output_path} : f[p] = "absent"}
    /\ fpc = "call"
    /\ input_path \in {"str", "list", "other"}
    /\ input_args \in InArgChoices
    /\ output_args \in OutArgChoices
    /\ num_retries \in 0..MaxRetries
    /\ validation_callback \in BOOLEAN
    /\ attempt = 0
    /\ last_err = "None"
    /\ runs = <<>>
    /\ outcome = "none"
    /\ orig_args = <<input_args, output_args>>
    /\ WorkerIdle
    /\ SchedulerIdle

NextFfmpeg == FfmpegStep

SpecFfmpeg == InitFfmpeg /\ [][NextFfmpeg]_vars

-----------------------------------------------------------------------------
(* download_yt_video() and segment_mp_worker() *)

\* A faulty variant: only identifiers that are too short are rejected.
WellFormedAtLeast(n) == n >= 11

\* not (len(ytid) != 11)
WellFormed(n) == n = 11

\* Lines 288-295: remove the muxed, the video and the audio file if they exist.
RemoveOutputs(f) ==
    RemoveIfExists(RemoveIfExists(RemoveIfExists(f, "video_audio"), "video"), "audio")

\* Lines 319-326, with the defaults of parse_arguments for the codec settings.
AudioInputArgs == <<Tok("-n"), Tok("-ss"), Num(ts_start)>>

AudioOutputArgs ==
    <<Tok("-t"), Num(duration), Tok("-ar"), Tok("48000"), Tok("-vn"),
      Tok("-ac"), Tok("2"), Tok("-sample_fmt"), Tok("s16"),
      Tok("-f"), Tok("wav"), Tok("-acodec"), Tok("pcm_s16le")>>

\* Lines 337-344
VideoInputArgs == <<Tok("-n"), Tok("-ss"), Num(ts_start)>>

VideoOutputArgs ==
    <<Tok("-t"), Num(duration), Tok("-f"), Tok("mp4"), Tok("-crf"), Tok("0"),
      Tok("-preset"), Tok("medium"), Tok("-r"), Tok("30"), Tok("-an"),
      Tok("-vcodec"), Tok(video_codec)>>

\* Lines 352-359
MuxInputArgs == <<Tok("-n")>>

MuxOutputArgs ==
    <<Tok("-f"), Tok("mp4"), Tok("-r"), Tok("30"), Tok("-vcodec"), Tok(video_codec),
      Tok("-acodec"), Tok("aac"), Tok("-ar"), Tok("48000"), Tok("-ac"), Tok("2"),
      Tok("-strict"), Tok("experimental")>>

wFrame == <<ytid_len, video_codec, ts_start, fs0>>

\* ffmpeg(ffmpeg_path, ipath, opath, input_args=ia, output_args=oa,
\*        num_retries=num_retries): no validation callback is passed.
CallFfmpeg(ipath, opath, ia, oa) ==
    /\ fpc' = "call"
    /\ input_path' = ipath
    /\ output_path' = opath
    /\ input_args' = ia
    /\ output_args' = oa
    /\ orig_args' = <<ia, oa>>
    /\ validation_callback' = FALSE
    /\ attempt' = 0
    /\ last_err' = "None"
    /\ runs' = <<>>
    /\ outcome' = "none"
    /\ UNCHANGED num_retries

\* A faulty variant: the caller goes on while the loop of the call still runs.
CallOverOrLooping(pc) == pc \in {"loop", "returned", "raised"}

\* ffmpeg() is an ordinary synchronous call: the statement after it runs only
\* once the call has returned or raised.
CallOver(pc) == pc \in {"returned", "raised"}

\* The ffmpeg() call of this step is over; note how it ended.
FfmpegOver(step) ==
    /\ wpc = step
    /\ CallOver(fpc)
    /\ calls' = Append(calls, [path |-> output_path, outcome |-> outcome,
                               n |-> Len(runs)])

\* Lines 384-387 of segment_mp_worker: the exception is logged, nothing is raised.
Caught(exc) ==
    /\ wpc' = "done"
    /\ wlog' = exc
    /\ UNCHANGED wret

\* Lines 373-379 and 273-295: log, enter the try, compute the three paths and
\* remove the files found there.
DyvRemoveOutputs ==
    /\ wpc = "call"
    /\ fs' = RemoveOutputs(fs)
    /\ wpc' = "check_id"
    /\ UNCHANGED <<hasIterable, ffVars, wFrame, n_resolve, n_exec, wlog, wret,
                   calls, sVars>>

\* Lines 297-299: print(ytid); return None, None
DyvMalformedId ==
    /\ wpc = "check_id"
    /\ ~WellFormed(ytid_len)
    /\ wpc' = "done"
    /\ wret' = "noop"
    /\ UNCHANGED <<envVars, ffVars, wFrame, n_resolve, n_exec, wlog, calls, sVars>>

\* Lines 301-302: Video.getFormats(ytid) gives the URL ...
DyvResolve ==
    /\ wpc = "check_id"
    /\ WellFormed(ytid_len)
    /\ n_resolve' = n_resolve + 1
    /\ wpc' = "resolved"
    /\ UNCHANGED <<envVars, ffVars, wFrame, n_exec, wlog, wret, calls, sVars>>

\* ... or raises, or its answer lacks the keys line 302 reads.
DyvResolveFails ==
    /\ wpc = "check_id"
    /\ WellFormed(ytid_len)
    /\ n_resolve' = n_resolve + 1
    /\ Caught("Exception")
    /\ UNCHANGED <<envVars, ffVars, wFrame, n_exec, calls, sVars>>

\* Lines 304-331: the audio extraction.
DyvAudio ==
    /\ wpc = "resolved"
    /\ CallFfmpeg("str", "audio", AudioInputArgs, AudioOutputArgs)
    /\ wpc' = "audio"
    /\ UNCHANGED <<envVars, wFrame, n_resolve, n_exec, wlog, wret, calls, sVars>>

\* Lines 333-336: the codec is checked once the audio call is back.
DyvUnsupportedCodec ==
    /\ FfmpegOver("audio")
    /\ fpc # "raised"
    /\ video_codec # "h264"
    /\ Caught("NotImplementedError")
    /\ UNCHANGED <<envVars, ffVars, wFrame, n_resolve, n_exec, sVars>>

\* Lines 337-349: the video extraction.
DyvVideo ==
    /\ FfmpegOver("audio")
    /\ fpc # "raised"
    /\ video_codec = "h264"
    /\ CallFfmpeg("str", "video", VideoInputArgs, VideoOutputArgs)
    /\ wpc' = "video"
    /\ UNCHANGED <<envVars, wFrame, n_resolve, n_exec, wlog, wret, sVars>>

\* Lines 351-363: the mux of the video and the audio file.
DyvMux ==
    /\ FfmpegOver("video")
    /\ fpc # "raised"
    /\ CallFfmpeg("list", "video_audio", MuxInputArgs, MuxOutputArgs)
    /\ wpc' = "mux"
    /\ UNCHANGED <<envVars, wFrame, n_resolve, n_exec, wlog, wret, sVars>>

\* Lines 365-367: log 'Downloaded video', return the two paths.
DyvReturn ==
    /\ FfmpegOver("mux")
    /\ fpc # "raised"
    /\ wpc' = "done"
    /\ wret' = "paths"
    /\ UNCHANGED <<envVars, ffVars, wFrame, n_resolve, n_exec, wlog, sVars>>

\* An exception leaves ffmpeg() and download_yt_video(); lines 384-387 catch it.
DyvFfmpegRaised ==
    /\ \E step \in {"audio", "video", "mux"} : FfmpegOver(step)
    /\ fpc = "raised"
    /\ Caught(outcome)
    /\ UNCHANGED <<envVars, ffVars, wFrame, n_resolve, n_exec, sVars>>

\* One call of segment_mp_worker(), as a pool worker would run it.
StartOffsets == {300}

InitWorker ==
    /\ hasIterable \in BOOLEAN
    /\ fs \in [Paths -> {"absent", "stale"}]
    /\ fpc = "idle"
    /\ input_path = "str"
    /\ output_path = "audio"
    /\ input_args = <<>>
    /\ output_args = <<>>
    /\ orig_args = <<<<>>, <<>>>>
    /\ num_retries \in 0..MaxRetries
    /\ validation_callback = FALSE
    /\ attempt = 0
    /\ last_err = "None"
    /\ runs = <<>>
    /\ outcome = "none"
    /\ wpc = "call"
    /\ ytid_len \in {10, 11, 12}
    /\ video_codec \in {"h264", "vp9"}
    /\ ts_start \in StartOffsets
    /\ fs0 = fs
    /\ n_resolve = 0
    /\ n_exec = 0
    /\ wlog = "none"
    /\ wret = "none"
    /\ calls = <<>>
    /\ SchedulerIdle

NextWorker ==
    \/ DyvRemoveOutputs
    \/ DyvMalformedId
    \/ DyvResolve
    \/ DyvResolveFails
    \/ DyvAudio
    \/ DyvUnsupportedCodec
    \/ DyvVideo
    \/ DyvMux
    \/ DyvReturn
    \/ DyvFfmpegRaised
    \/ FfmpegEnter
    \/ FfmpegSuccess
    \/ FfmpegAlreadyExists
    \/ FfmpegHttpError
    \/ FfmpegOtherError
    \/ FfmpegExhausted

SpecWorker == InitWorker /\ [][NextWorker]_vars

-----------------------------------------------------------------------------
(* download_subset_videos() *)

MaxDataRows == 2

MaxWorkers == 2

\* The segments (ytid, ts_start) a metadata file can name.
Keys == {1, 2}

Header == [key |-> 0]

\* The rows after the header.
DataRows == IF rows = <<>> THEN <<>> ELSE SubSeq(rows, 2, Len(rows))

\* Line 418: the video, the audio and the muxed file of the row all exist.
AlreadyDownloaded(d, row) == \A p \in Paths : Exists(d[row.key], p)

\* subset_data is the csv.reader object of line 397, an iterator: it has no
\* __getitem__, so evaluating subset_data[1:] raises TypeError before the
\* first row is read.
Subscriptable(reader) == FALSE

sFrame == <<rows, disk, num_workers>>

SchedTerminated == spc \in {"returned", "raised", "exited"}

\* Lines 393-400: open the file, make the reader, start the pool.
SchedOpen ==
    /\ spc = "call"
    /\ pool' = [state |-> "open", size |-> num_workers]
    /\ spc' = "try"
    /\ UNCHANGED <<envVars, ffVars, wVars, sFrame, submitted, skipped, sexc,
                   interrupted>>

\* A SIGINT before the try statement is entered: KeyboardInterrupt, uncaught.
SchedInterruptedEarly ==
    /\ spc = "call"
    /\ interrupted' = TRUE
    /\ sexc' = "KeyboardInterrupt"
    /\ spc' = "raised"
    /\ UNCHANGED <<envVars, ffVars, wVars, sFrame, pool, submitted, skipped>>

\* Line 402: enumerate(subset_data[1:]) raises TypeError, which neither
\* except clause (csv.Error, KeyboardInterrupt) handles: on to the finally.
SchedEnumerate ==
    /\ spc = "try"
    /\ ~Subscriptable(rows)
    /\ sexc' = "TypeError"
    /\ spc' = "finally"
    /\ UNCHANGED <<envVars, ffVars, wVars, sFrame, pool, submitted, skipped,
                   interrupted>>

\* Lines 434-436: a SIGINT inside the try: log 'Forcing exit.', exit() raises
\* SystemExit, on to the finally.
SchedInterruptedInTry ==
    /\ spc = "try"
    /\ interrupted' = TRUE
    /\ sexc' = "SystemExit"
    /\ spc' = "finally"
    /\ UNCHANGED <<envVars, ffVars, wVars, sFrame, pool, submitted, skipped>>

\* Line 439: pool.close()
SchedClose ==
    /\ spc = "finally"
    /\ pool' = [pool EXCEPT !.state = "closed"]
    /\ spc' = "join"
    /\ UNCHANGED <<envVars, ffVars, wVars, sFrame, submitted, skipped, sexc,
                   interrupted>>

\* Line 440: pool.join() returns once no submitted task is left; then the
\* pending exception goes on to the caller.
SchedJoin ==
    /\ spc = "join"
    /\ pool' = [pool EXCEPT !.state = "joined"]
    /\ spc' = IF sexc = "None" THEN "returned"
              ELSE IF sexc = "SystemExit" THEN "exited"
              ELSE "raised"
    /\ UNCHANGED <<envVars, ffVars, wVars, sFrame, submitted, skipped, sexc,
                   interrupted>>

\* Lines 441-443: a SIGINT inside the finally: log 'Forcing exit.', exit().
SchedInterruptedInFinally ==
    /\ spc \in {"finally", "join"}
    /\ interrupted' = TRUE
    /\ sexc' = "SystemExit"
    /\ spc' = "exited"
    /\ UNCHANGED <<envVars, ffVars, wVars, sFrame, pool, submitted, skipped>>

Init ==
    /\ hasIterable \in BOOLEAN
    /\ fs = [p \in Paths |-> "absent"]
    /\ fpc = "idle"
    /\ input_path = "str"
    /\ output_path = "audio"
    /\ input_args = <<>>
    /\ output_args = <<>>
    /\ orig_args = <<<<>>, <<>>>>
    /\ num_retries \in 1..MaxRetries
    /\ validation_callback = FALSE
    /\ attempt = 0
    /\ last_err = "None"
    /\ runs = <<>>
    /\ outcome = "none"
    /\ WorkerIdle
    /\ spc = "call"
    /\ rows \in {<<>>} \cup
                {<<Header>> \o [i \in 1..n |-> [key |-> ks[i]]] :
                     n \in 0..MaxDataRows, ks \in [1..MaxDataRows -> Keys]}
    /\ disk \in [Keys -> [Paths -> {"absent", "stale"}]]
    /\ num_workers \in 1..MaxWorkers
    /\ pool = [state |-> "none", size |-> 0]
    /\ submitted = {}
    /\ skipped = {}
    /\ sexc = "None"
    /\ interrupted = FALSE

Next ==
    \/ SchedOpen
    \/ SchedInterruptedEarly
    \/ SchedEnumerate
    \/ SchedInterruptedInTry
    \/ SchedClose
    \/ SchedJoin
    \/ SchedInterruptedInFinally

Spec == Init /\ [][Next]_vars

-----------------------------------------------------------------------------
(* Claims about one ffmpeg() call, checked under SpecFfmpeg *)

\* The execution failed with a stderr that matches the HTTP pattern and does
\* not carry the already-exists marker.
HttpFailure(r) == ~r.ok /\ r.stderr.matches_http /\ ~r.stderr.ends_exists

AllRunsHttp == runs # <<>> /\ \A i \in 1..Len(runs) : HttpFailure(runs[i])

\* C1: when every attempt of one ffmpeg() call fails with an HTTP-pattern
\* stderr and num_retries >= 1, the call never raises, the tool is executed
\* exactly num_retries times, and the call returns through the
\* retries-exhausted branch with the last error being that SubprocessError.
C1_HttpExhaustsAfterMaxRetries ==
    (num_retries >= 1 /\ AllRunsHttp) =>
        /\ fpc \in {"loop", "returned"}
        /\ Len(runs) <= num_retries
        /\ fpc = "returned" =>
              /\ Len(runs) = num_retries
              /\ outcome = "exhausted"
              /\ last_err = "SubprocessError"
        /\ (fpc = "loop" /\ Len(runs) = num_retries) => ENABLED FfmpegExhausted

C1_Witness ==
    /\ fpc = "returned"
    /\ outcome = "exhausted"
    /\ num_retries = 3
    /\ Len(runs) = 3
    /\ AllRunsHttp

RECURSIVE SumDiffs(_)
SumDiffs(k) == IF k = 0 THEN 0 ELSE SumDiffs(k - 1) + runs[k].diff

FirstRunsAreMismatches(k) == \A i \in 1..k : runs[i].kind = "duration"

\* args with the value after its first '-t' set to v, every other token kept
WithDuration(args, v) ==
    [i \in 1..Len(args) |->
        IF i = IndexOf(args, "-t") + 1 THEN Num(v) ELSE args[i]]

DurationOf(args) == args[IndexOf(args, "-t") + 1].n

\* The argument lists attempt k+1 must be invoked with after k mismatches.
ExpectedArgs(k) ==
    IF Contains(orig_args[1], "-t")
    THEN <<WithDuration(orig_args[1], DurationOf(orig_args[1]) + SumDiffs(k)),
           orig_args[2]>>
    ELSE IF Contains(orig_args[2], "-t")
    THEN <<orig_args[1],
           WithDuration(orig_args[2], DurationOf(orig_args[2]) + SumDiffs(k))>>
    ELSE orig_args

\* C2: after k consecutive duration mismatches with differences d1..dk,
\* attempt k+1 runs with '-t' equal to the original value + d1 + ... + dk; the
\* token rewritten is the one of input_args when input_args holds '-t',
\* otherwise the one of output_args, and no other token of either list changes.
C2_DurationAdjustmentCumulative ==
    \A i \in 1..Len(runs) :
        FirstRunsAreMismatches(i - 1) =>
            <<runs[i].ia, runs[i].oa>> = ExpectedArgs(i - 1)

\* 10 -> 10.5 -> 10.7 in output_args
C2_Witness ==
    /\ Len(runs) = 3
    /\ FirstRunsAreMismatches(2)
    /\ runs[1].diff = 5
    /\ runs[2].diff = 2
    /\ ~Contains(orig_args[1], "-t")
    /\ DurationOf(runs[1].oa) = 100
    /\ DurationOf(runs[2].oa) = 105
    /\ DurationOf(runs[3].oa) = 107

\* C3: an attempt that fails with a stderr ending in the already-exists marker
\* is the last execution of the call: the call has returned, not through the
\* retries-exhausted branch, and the output file is the one that was there
\* before the attempt; also when the stderr matches the HTTP pattern.
C3_AlreadyExistsStops ==
    \A i \in 1..Len(runs) :
        (~runs[i].ok /\ runs[i].stderr.ends_exists) =>
            /\ i = Len(runs)
            /\ fpc = "returned"
            /\ outcome = "exists"
            /\ runs[i].pre # "absent"
            /\ fs[output_path] = runs[i].pre

C3_Witness ==
    /\ Len(runs) = 2
    /\ HttpFailure(runs[1])
    /\ ~runs[2].ok
    /\ runs[2].stderr.ends_exists
    /\ runs[2].stderr.matches_http
    /\ fpc = "returned"
    /\ Exists(fs, output_path)

-----------------------------------------------------------------------------
(* Claims about one download_yt_video() call, checked under SpecWorker *)

\* C4: for an identifier whose length is not 11, download_yt_video() never
\* resolves a media URL, never calls ffmpeg() and never executes the tool, and
\* it returns (None, None) with nothing raised.
C4_MalformedIdNoInvocation ==
    (ytid_len # 11) =>
        /\ n_resolve = 0
        /\ n_exec = 0
        /\ calls = <<>>
        /\ fpc = "idle"
        /\ wpc = "done" => (wret = "noop" /\ wlog = "none")

C4_Witness ==
    /\ ytid_len = 12
    /\ wpc = "done"
    /\ wret = "noop"

\* C5: for an identifier whose length is not 11, download_yt_video() leaves
\* the filesystem as it found it: the files at the request's three output
\* paths are removed only for a well-formed identifier.
C5_MalformedIdLeavesFiles ==
    (ytid_len # 11) => fs = fs0

-----------------------------------------------------------------------------
(* Claims about download_subset_videos(), checked under Spec *)

AllAlreadyDownloaded ==
    \A i \in 1..Len(DataRows) : AlreadyDownloaded(disk, DataRows[i])

\* C6: a run over a list whose requests all have their three output files
\* submits nothing, executes nothing, and reports every request as skipped.
C6_RerunSkipsEveryRequest ==
    (SchedTerminated /\ ~interrupted /\ AllAlreadyDownloaded) =>
        /\ submitted = {}
        /\ n_exec = 0
        /\ skipped = 1..Len(DataRows)

\* C7: when the run is over, every data row whose three output files do not
\* all exist has been submitted to the pool, the header row has not, and the
\* run has returned only after the pool was joined.
C7_IncompleteRowsDispatched ==
    (SchedTerminated /\ ~interrupted) =>
        /\ \A i \in 1..Len(DataRows) :
              ~AlreadyDownloaded(disk, DataRows[i]) => i \in submitted
        /\ 0 \notin submitted
        /\ pool.state = "joined"

\* C8: no exception leaves segment_mp_worker(), and whatever the jobs did,
\* an uninterrupted run of the scheduler returns normally.
C8_JobFailureIsolated ==
    /\ wpc # "raised"
    /\ (SchedTerminated /\ ~interrupted) => (spc = "returned" /\ sexc = "None")

-----------------------------------------------------------------------------
(* Further claims about one ffmpeg() call, checked under SpecFfmpeg *)

\* C11: after an attempt that failed with an HTTP-pattern stderr, the next
\* attempt never starts with a partially written output file in place.
C11_HttpFailureRemovesPartialOutput ==
    \A i \in 1..(Len(runs) - 1) :
        HttpFailure(runs[i]) => runs[i + 1].pre # "partial"

-----------------------------------------------------------------------------
(* Further claims about one download_yt_video() call, checked under SpecWorker *)

\* C12: with a video codec other than h264, download_yt_video() raises before
\* any ffmpeg() call is made and before the tool is executed, the audio
\* extraction included.
C12_UnsupportedCodecBeforeAnyInvocation ==
    (video_codec # "h264") =>
        /\ n_exec = 0
        /\ fpc = "idle"
        /\ calls = <<>>

\* C13: once a step has exhausted its retries, the tool is not executed for
\* any later step of the request, and nothing leaves segment_mp_worker().
C13_ExhaustionEndsAcquisition ==
    /\ wpc # "raised"
    /\ \A i \in 1..Len(calls) :
          (calls[i].outcome = "exhausted" /\ calls[i].n >= 1) =>
              ~(output_path # calls[i].path /\ runs # <<>>)

\* How a call that returned to download_yt_video() can have ended.
ReturnedOutcomes == {"success", "exists", "exhausted"}

\* C15: within one job the calls are made one after the other: every call
\* the job has left was over when the next statement ran; the tool is executed
\* for the video file only after the audio call has returned, and for the
\* muxed file only after the audio call and then the video call have returned.
C15_StepsInStrictSequence ==
    /\ \A i \in 1..Len(calls) : calls[i].outcome # "none"
    /\ wpc = "audio" => (calls = <<>> /\ output_path = "audio")
    /\ wpc = "video" =>
          /\ output_path = "video"
          /\ Len(calls) = 1
          /\ calls[1].path = "audio"
          /\ calls[1].outcome \in ReturnedOutcomes
    /\ wpc = "mux" =>
          /\ output_path = "video_audio"
          /\ Len(calls) = 2
          /\ calls[1].path = "audio"
          /\ calls[2].path = "video"
          /\ calls[1].outcome \in ReturnedOutcomes
          /\ calls[2].outcome \in ReturnedOutcomes
    /\ runs # <<>> => wpc \in {"audio", "video", "mux", "done"}

C15_Witness ==
    /\ wpc = "mux"
    /\ fpc = "loop"
    /\ runs # <<>>
    /\ calls[1].n >= 1
    /\ calls[2].n >= 1

-----------------------------------------------------------------------------
(* The retry loop as a whole, checked under SpecFfmpeg *)

Terminated == fpc \in {"returned", "raised"}

AttemptsBounded == Len(runs) <= num_retries

\* An execution that succeeded and validated, or that met the marker, is the
\* last one, and the call has returned reporting it.
StopsAtFirstSuccessOrExists ==
    \A i \in 1..Len(runs) :
        runs[i].kind \in {"success", "exists"} =>
            /\ i = Len(runs)
            /\ fpc = "returned"
            /\ outcome = runs[i].kind

\* A SubprocessError that is neither the marker nor an HTTP error raises
\* nothing: the loop goes on with the next attempt, or the call returns.
OtherFailureConsumesAttempt ==
    \A i \in 1..Len(runs) :
        runs[i].kind = "other" =>
            /\ i = Len(runs) => (fpc \in {"loop", "returned"} /\ attempt = i)
            /\ i = Len(runs) /\ fpc = "returned" => outcome = "exhausted"

AllAttemptsFailed ==
    /\ Len(runs) = num_retries
    /\ \A i \in 1..Len(runs) : runs[i].kind \notin {"success", "exists"}

\* The exception of a call that raised comes from the input_path test, before
\* any execution, or from the '-t' rewrite after a duration mismatch.
RaisesOnlyOnBadInputOrRewrite ==
    fpc = "raised" =>
        \/ runs = <<>> /\ outcome \in {"ValueError", "AttributeError"}
        \/ /\ runs # <<>>
           /\ runs[Len(runs)].kind = "duration"
           /\ outcome = DurationRewriteRaises(input_args, output_args)
           /\ outcome # "None"

C17_InvalidOutputKeptOnLastAttemptOnly ==
    \A i \in 1..Len(runs) :
        runs[i].kind \in {"duration", "validation"} =>
            IF i < num_retries
            THEN /\ i < Len(runs) => runs[i + 1].pre = "absent"
                 /\ i = Len(runs) => fs[output_path] = "absent"
            ELSE /\ i = Len(runs)
                 /\ fs[output_path] = "invalid"
                 /\ fpc = "returned" => outcome = "exhausted"

C17_Witness ==
    /\ num_retries = 2
    /\ Len(runs) = 2
    /\ runs[1].kind = "validation"
    /\ runs[1].pre = "stale"
    /\ runs[2].kind = "duration"
    /\ runs[2].pre = "absent"
    /\ fpc = "returned"
    /\ outcome = "exhausted"
    /\ fs[output_path] = "invalid"

NoDurationToken == ~Contains(orig_args[1], "-t") /\ ~Contains(orig_args[2], "-t")

\* C18: a duration mismatch in a call whose argument lists hold no '-t' is
\* the last execution of the call, whatever attempts are left: the call has
\* raised ValueError to its caller.
C18_MismatchWithoutDurationTokenRaises ==
    \A i \in 1..Len(runs) :
        (runs[i].kind = "duration" /\ NoDurationToken) =>
            /\ i = Len(runs)
            /\ fpc = "raised"
            /\ outcome = "ValueError"

C18_Witness ==
    /\ num_retries = 3
    /\ NoDurationToken
    /\ Len(runs) = 2
    /\ runs[1].kind = "http"
    /\ runs[2].kind = "duration"
    /\ fpc = "raised"
    /\ outcome = "ValueError"

-----------------------------------------------------------------------------
(* Further claims about download_subset_videos(), checked under Spec *)

\* Some of the three output files of the row exist, but not all of them.
PartlyDownloaded(d, row) ==
    /\ \E p \in Paths : Exists(d[row.key], p)
    /\ ~AlreadyDownloaded(d, row)

\* C19: when an uninterrupted run is over, every data row for which some but
\* not all of the three output files exist has been submitted to the pool, and
\* the job of a submitted row has started by removing the files it found.
C19_PartlyDownloadedRowsDispatched ==
    (SchedTerminated /\ ~interrupted) =>
        \A i \in 1..Len(DataRows) :
            PartlyDownloaded(disk, DataRows[i]) =>
                /\ i \in submitted
                /\ wpc # "idle"

\* The interpreter keeps executing download_subset_videos() as long as it has
\* a statement to execute: weak fairness of the steps of the run.
SpecFair == Spec /\ WF_vars(Next)

\* C20: with no interrupt, every ffmpeg() call that was made comes to an end,
\* every job that was started finishes, and download_subset_videos() returns.
C20_UninterruptedRunReturns ==
    ([]~interrupted) =>
        /\ (fpc = "call") ~> (fpc \in {"returned", "raised"})
        /\ (wpc = "call") ~> (wpc = "done")
        /\ (spc = "call") ~> (spc = "returned")

-----------------------------------------------------------------------------
(* The output files as the record of success, checked under SpecWorker *)

\* C21: when a job is over and its three output files all exist, each file
\* was written by an execution that succeeded, and each of the job's three
\* ffmpeg() calls ended in success, none in retries-exhausted.
C21_LedgerSound ==
    (wpc = "done" /\ \A p \in Paths : Exists(fs, p)) =>
        /\ \A p \in Paths : fs[p] = "good"
        /\ Len(calls) = 3
        /\ \A i \in 1..Len(calls) : calls[i].outcome = "success"

====
